---- MODULE Spec2Model ----
(***************************************************************************)
(* The agent control loop and its tool-dispatch protocol.                  *)
(*                                                                         *)
(* Text is a sequence of tokens.  A token is a chunk of characters that    *)
(* the code never looks inside: "Final Answer" (the marker without its     *)
(* colon), ":", ",", the whitespace tokens " " and "\n", a tool name, or   *)
(* a piece of a fixed template.  The marker "Final Answer:" is therefore   *)
(* the two-token text <<"Final Answer", ":">>, and str.split(":") also     *)
(* cuts at the marker's colon, as it does in Python.                       *)
(***************************************************************************)
EXTENDS Naturals, Sequences, FiniteSets

VARIABLES
    variant,      \* which agent of the repository is in use
    pc,           \* Agent.run (Nolangagent.py): position of the loop
    messages,     \* Agent.run: the local list `messages`
    response,     \* Agent.run: the local `response`
    request,      \* the argument of the last cortex_function call of the loop
    result,       \* what Agent.run returned
    failure,      \* what Agent.run raised, and from where
    modelCalls,   \* calls of cortex_function made by the loop in this run
    toolTurns,    \* responses of this run that were not classified Final
    invocations,  \* tool.run calls of this run, in order
    toolResult,   \* the value the last tool.run returned
    nested,       \* the request of the last nested completion call
    cursors,      \* cursors opened and closed by the last warehouse call
    describes,    \* the tables the last schema-info call sent a DESCRIBE TABLE for
    cxTurns,      \* CortexAgent (Agent.py): the inputs of the earlier turns
    cxRequest,    \* CortexAgent: the messages create_prompt built last
    cxStep,       \* CortexAgent: what parse_response returned last
    text,         \* the parser alone: the completion text it is given
    parsed,       \* the parser alone: parse_response(text)
    runStep,      \* the parser alone: the classification of Agent.run on text
    sessions,     \* Nolangmain.py: per browser session, its connection and run
    connCache,    \* Nolangmain.py: what st.cache_resource holds, by credentials
    prevRun,      \* the record of the run before this one
    trace         \* the record of this run: what it was given and what it did

runVars == <<pc, messages, response, request, result, failure, modelCalls,
             toolTurns, invocations, toolResult, nested, cursors, describes>>
cxVars == <<cxTurns, cxRequest, cxStep>>
parserVars == <<text, parsed, runStep>>
sessVars == <<sessions, connCache>>
histVars == <<prevRun, trace>>
vars == <<variant, runVars, cxVars, parserVars, sessVars, histVars>>

----------------------------------------------------------------------------
(* Bounds *)

MaxCalls == 3
MaxLen == 5

----------------------------------------------------------------------------
(* Tokens *)

FA == "Final Answer"
Colon == <<":">>
Comma == <<",">>
Marker == <<FA, ":">>
Whitespace == {" ", "\n"}
None == "None"

----------------------------------------------------------------------------
(* Python's str operations, on token sequences *)

\* text[i:].startswith(sep)
MatchAt(s, sep, i) ==
    /\ i + Len(sep) - 1 <= Len(s)
    /\ SubSeq(s, i, i + Len(sep) - 1) = sep

\* str.find(sep) + 1: the first position where sep occurs, 0 when none
Find(s, sep) ==
    IF \E i \in 1..Len(s) : MatchAt(s, sep, i)
    THEN CHOOSE i \in 1..Len(s) :
             /\ MatchAt(s, sep, i)
             /\ \A j \in 1..(i - 1) : ~MatchAt(s, sep, j)
    ELSE 0

\* sep in s
Contains(s, sep) == Find(s, sep) # 0

\* s.startswith(sep)
StartsWith(s, sep) == MatchAt(s, sep, 1)

\* s.split(sep): cut at every occurrence, left to right, empty parts kept
RECURSIVE Split(_, _)
Split(s, sep) ==
    LET i == Find(s, sep)
    IN  IF i = 0
        THEN <<s>>
        ELSE <<SubSeq(s, 1, i - 1)>> \o Split(SubSeq(s, i + Len(sep), Len(s)), sep)

\* sep.join(parts)
RECURSIVE Join(_, _)
Join(parts, sep) ==
    IF parts = <<>> THEN <<>>
    ELSE IF Len(parts) = 1 THEN parts[1]
    ELSE parts[1] \o sep \o Join(Tail(parts), sep)

RECURSIVE LStrip(_)
LStrip(s) ==
    IF s # <<>> /\ Head(s) \in Whitespace THEN LStrip(Tail(s)) ELSE s

RECURSIVE RStrip(_)
RStrip(s) ==
    IF s # <<>> /\ s[Len(s)] \in Whitespace
    THEN RStrip(SubSeq(s, 1, Len(s) - 1))
    ELSE s

\* s.strip()
Strip(s) == RStrip(LStrip(s))

\* parts[-1]
Last(parts) == parts[Len(parts)]

----------------------------------------------------------------------------
(* ParsedStep *)

Final(a) == [kind |-> "Final", answer |-> a, name |-> <<>>, argument |-> <<>>]
ToolCall(n, a) == [kind |-> "ToolCall", answer |-> <<>>, name |-> n, argument |-> a]

\* Agent.py: CortexAgent.parse_response
parse_response(r) ==
    IF Contains(r, Marker)
    THEN Final(Strip(Last(Split(r, Marker))))
    ELSE ToolCall(Strip(Split(r, Colon)[1]),
                  Strip(Join(Tail(Split(r, Colon)), Colon)))

\* Nolangagent.py, Agent.run: response.strip().startswith("Final Answer:")
RunIsFinal(r) == StartsWith(Strip(r), Marker)

\* Agent.run: response.split("Final Answer:")[-1].strip()
RunAnswer(r) == Strip(Last(Split(r, Marker)))

\* Agent.run: response.split(":")[0].strip()
ToolName(r) == Strip(Split(r, Colon)[1])

\* a plausible slip: the later colons are lost when the parts are rejoined
ToolInputNoColons(r) == Strip(Join(Tail(Split(r, Colon)), <<>>))

\* Agent.run: ":".join(response.split(":")[1:]).strip()
ToolInput(r) == Strip(Join(Tail(Split(r, Colon)), Colon))

\* the classification Agent.run makes of one response
RunStep(r) ==
    IF RunIsFinal(r) THEN Final(RunAnswer(r)) ELSE ToolCall(ToolName(r), ToolInput(r))

----------------------------------------------------------------------------
(* Messages and the registry *)

Msg(role, content) == [role |-> role, content |-> content]

\* self.system_message, a fixed text
SystemMessage == <<"SYSTEM_INSTRUCTIONS">>

\* Agent._get_tools: the names, in registration order
Tools == <<"snowflake_table_info", "query_checker", "query_executor">>

ToolNames == {Tools[i] : i \in 1..Len(Tools)}

\* str.lower on the names the endpoint is seen to write
Lower(tok) == IF tok = "Query_Executor" THEN "query_executor" ELSE tok

\* a plausible slip: the names are compared without regard to letter case
LookupIgnoreCase(tool_name) ==
    IF \E i \in 1..Len(Tools) : <<Tools[i]>> = [k \in 1..Len(tool_name) |-> Lower(tool_name[k])]
    THEN Tools[CHOOSE i \in 1..Len(Tools) :
                   <<Tools[i]>> = [k \in 1..Len(tool_name) |-> Lower(tool_name[k])]]
    ELSE None

\* next((t for t in self.tools if t.name == tool_name), None): the first
\* tool whose name is the one-token text tool_name, None when there is none
Lookup(tool_name) ==
    IF \E i \in 1..Len(Tools) : <<Tools[i]>> = tool_name
    THEN Tools[CHOOSE i \in 1..Len(Tools) :
                   /\ <<Tools[i]>> = tool_name
                   /\ \A j \in 1..(i - 1) : <<Tools[j]>> # tool_name]
    ELSE None

\* f"Tool {tool_name} returned: {tool_response}"
ToolReturnedText(tool_name, rendered) ==
    <<"Tool ">> \o tool_name \o <<" returned", ":", " ">> \o rendered

\* f"Error: Tool {tool_name} not found."
NotFoundText(tool_name) == <<"Error", ":", " Tool ">> \o tool_name \o <<" not found.">>

----------------------------------------------------------------------------
(* The external collaborators: what the warehouse and the endpoint can do *)

\* the user inputs of a run: plain text, and text that reads like a tool
\* call and carries the marker
Inputs == {<<"hi">>, <<"query_executor", ":", FA, ":", "x">>}

\* completion texts the endpoint returns to the loop
Responses ==
    { <<FA, ":", " ", "x">>,
      <<" ", FA, ":", "x", " ">>,
      <<"x", "\n", FA, ":", " ", "x">>,
      <<"query_executor", ":", " ", "q", ":", "q">>,
      <<"query_executor", ":", "q", "\n", FA, ":", "x">>,
      <<"snowflake_table_info", ":", "t1", ",", "t2">>,
      <<"query_checker", ":", " ", "q", "'">>,
      <<"Query_Executor", ":", "q">>,
      <<"x">>,
      <<":", "q">> }

\* completion texts the endpoint returns to the nested call of query_checker
CheckerReplies == {<<FA, ":", " ", "q">>, <<"query_executor", ":", "q">>}

Errors == {"SQL compilation error"}
Rows == {"[(5 rows)]"}
QueryIds == {"abc-123"}
Schemas == {"[(A)]"}

NoCursors == [opened |-> 0, closed |-> 0]
NoResult == [type |-> "none"]

\* where a warehouse call can raise
ExecStages == {"cursor", "execute", "fetchall", "close"}

\* str(value), as the f-string renders a tool's return value
PyStr(v) ==
    IF v.type = "str" THEN v.value
    ELSE IF "error" \in DOMAIN v
         THEN <<"{'error'", ":", " '", v.error, "'}">>
         ELSE <<"{'results'", ":", " ", v.results, ", 'query_id'", ":", " '",
                v.query_id, "'}">>

\* Nolangmain.py: cortex_complete(messages).  stage = "ok": the endpoint
\* returns reply; otherwise the named step raises.
cortex_complete(reply, stage) ==
    IF stage = "ok"
    THEN [raised |-> FALSE, value |-> reply, cursors |-> [opened |-> 1, closed |-> 1]]
    ELSE [raised |-> TRUE, value |-> <<>>,
          cursors |-> [opened |-> IF stage = "cursor" THEN 0 ELSE 1, closed |-> 0]]

\* a plausible slip: the cursor is created before the try
_query_executor_CursorOutsideTry(query, stage, e, rows, sfqid) ==
    IF stage = "ok"
    THEN [raised |-> FALSE,
          value |-> [type |-> "dict", results |-> rows, query_id |-> sfqid],
          cursors |-> [opened |-> 1, closed |-> 1], describes |-> <<>>]
    ELSE [raised |-> stage = "cursor",
          value |-> [type |-> "dict", error |-> e],
          cursors |-> [opened |-> IF stage = "cursor" THEN 0 ELSE 1, closed |-> 0],
          describes |-> <<>>]

\* Agent._query_executor(query): every step is inside the try
_query_executor(query, stage, e, rows, sfqid) ==
    IF stage = "ok"
    THEN [raised |-> FALSE,
          value |-> [type |-> "dict", results |-> rows, query_id |-> sfqid],
          cursors |-> [opened |-> 1, closed |-> 1], describes |-> <<>>]
    ELSE [raised |-> FALSE,
          value |-> [type |-> "dict", error |-> e],
          cursors |-> [opened |-> IF stage = "cursor" THEN 0 ELSE 1, closed |-> 0],
          describes |-> <<>>]

\* toolkit.py: QuerySQLDataBaseTool._run(query): every step is inside the try
QuerySQLDataBaseTool_run(query, stage, e, rows, sfqid) ==
    IF stage = "ok"
    THEN [raised |-> FALSE,
          value |-> [type |-> "tuple", first |-> <<rows>>, second |-> sfqid],
          cursors |-> [opened |-> 1, closed |-> 1]]
    ELSE [raised |-> FALSE,
          value |-> [type |-> "tuple", first |-> <<"Error", ":", " ", e>>, second |-> None],
          cursors |-> [opened |-> IF stage = "cursor" THEN 0 ELSE 1, closed |-> 0]]

\* the text _snowflake_table_info has built after the first k tables
RECURSIVE SchemaBlocks(_, _, _)
SchemaBlocks(tables, schemas, k) ==
    IF k = 0 THEN <<>>
    ELSE SchemaBlocks(tables, schemas, k - 1)
         \o <<"Schema for table ">> \o tables[k] \o <<":", " ", schemas[k], "\n">>

\* Agent._snowflake_table_info(table_names): no try.  failAt = 0: every
\* DESCRIBE TABLE succeeds; failAt = k: the k-th table's lookup raises at stage.
_snowflake_table_info(table_names, schemas, failAt, stage) ==
    LET tables == Split(table_names, Comma)
    IN  IF failAt = 0
        THEN [raised |-> FALSE,
              value |-> [type |-> "str",
                         value |-> SchemaBlocks(tables, schemas, Len(tables))],
              cursors |-> [opened |-> Len(tables), closed |-> Len(tables)],
              describes |-> tables]
        ELSE [raised |-> TRUE, value |-> NoResult,
              cursors |-> [opened |-> IF stage = "cursor" THEN failAt - 1 ELSE failAt,
                           closed |-> failAt - 1],
              describes |-> SubSeq(tables, 1, IF stage = "cursor" THEN failAt - 1 ELSE failAt)]

\* query.replace('"', '\\"').replace("'", "\\'")
RECURSIVE Escape(_)
Escape(q) ==
    IF q = <<>> THEN <<>>
    ELSE (IF Head(q) = "'" THEN <<"\\'">>
          ELSE IF Head(q) = "\"" THEN <<"\\\"">>
          ELSE <<Head(q)>>) \o Escape(Tail(q))

\* a plausible slip: the nested request starts with the agent's system message
CheckerMessagesWithSystem(query) ==
    <<Msg("system", SystemMessage),
      Msg("user", <<"\n">> \o Escape(query) \o <<"\nDouble check ... SQL Query", ":", " ">>)>>

\* Agent._query_checker: the messages of the nested request
CheckerMessages(query) ==
    <<Msg("user", <<"\n">> \o Escape(query) \o <<"\nDouble check ... SQL Query", ":", " ">>)>>

\* Agent._query_checker(query): no try around the nested completion call
_query_checker(query, reply, stage) ==
    LET c == cortex_complete(reply, stage)
    IN  [raised |-> c.raised,
         value |-> IF c.raised THEN NoResult ELSE [type |-> "str", value |-> c.value],
         cursors |-> c.cursors, describes |-> <<>>]

\* toolkit.py: QuerySQLCheckerTool._run(query): the same one-message list,
\* passed to db.run inside the COMPLETE statement; no try
QuerySQLCheckerTool_run(query, reply, raised) ==
    [raised |-> raised,
     value |-> IF raised THEN [type |-> "raise", tool |-> "sql_db_query_checker"]
               ELSE [type |-> "str", value |-> reply],
     messages |-> CheckerMessages(query)]

\* toolkit.py: InfoSnowflakeTableTool._run(table_names): db.run per table, no try
InfoSnowflakeTableTool_run(table_names, schemas, failAt) ==
    LET tables == Split(table_names, Comma)
    IN  IF failAt = 0
        THEN [raised |-> FALSE,
              value |-> [type |-> "str",
                         value |-> SchemaBlocks(tables, schemas, Len(tables))],
              describes |-> tables]
        ELSE [raised |-> TRUE, value |-> [type |-> "raise", tool |-> "sql_db_schema"],
              describes |-> SubSeq(tables, 1, failAt)]

----------------------------------------------------------------------------
(* The request sent to the completion endpoint *)

\* json.dumps of a str: the characters that JSON escapes, escaped
RECURSIVE JsonEscape(_)
JsonEscape(s) ==
    IF s = <<>> THEN <<>>
    ELSE (IF Head(s) = "\n" THEN <<"\\n">>
          ELSE IF Head(s) = "\"" THEN <<"\\\"">>
          ELSE IF Head(s) = "\\'" THEN <<"\\\\'">>
          ELSE IF Head(s) = "\\\"" THEN <<"\\\\\\\"">>
          ELSE <<Head(s)>>) \o JsonEscape(Tail(s))

\* json.dumps of one message dict
JsonObject(m) ==
    <<"{\"role\"", ":", " \"", m.role, "\", \"content\"", ":", " \"">>
    \o JsonEscape(m.content) \o <<"\"}">>

\* json.dumps(messages): every message, encoded, in list order
json_dumps(msgs) == [i \in 1..Len(msgs) |-> JsonObject(msgs[i])]

\* Agent.run: the initial value of the local `messages`
InitialMessages(input_string) ==
    <<Msg("system", SystemMessage), Msg("user", input_string)>>

\* Agent.py: CortexAgent.create_prompt(input_string): the messages it embeds
create_prompt(input_string) ==
    json_dumps(<<Msg("system", SystemMessage), Msg("user", input_string)>>)

----------------------------------------------------------------------------
(* Agent.run of Nolangagent.py *)

IdleRun ==
    /\ pc = "idle"
    /\ messages = <<>>
    /\ response = <<>>
    /\ request = <<>>
    /\ result = <<>>
    /\ failure = "none"
    /\ modelCalls = 0
    /\ toolTurns = 0
    /\ invocations = <<>>
    /\ toolResult = NoResult
    /\ nested = <<>>
    /\ cursors = NoCursors
    /\ describes = <<>>

IdleCortex ==
    /\ cxTurns = <<>>
    /\ cxRequest = <<>>
    /\ cxStep = [kind |-> "none"]

IdleParser ==
    /\ text = <<>>
    /\ parsed = [kind |-> "none"]
    /\ runStep = [kind |-> "none"]

IdleSessions ==
    /\ sessions = <<>>
    /\ connCache = <<>>

IdleHistory ==
    /\ prevRun = <<>>
    /\ trace = <<>>

Init ==
    /\ variant \in {"Nolangagent", "Agent"}
    /\ IdleRun
    /\ IdleCortex
    /\ IdleParser
    /\ IdleSessions
    /\ IdleHistory

\* a plausible slip: the transcript is kept on the agent between runs
StartRunKeepsTranscript ==
    /\ variant = "Nolangagent"
    /\ pc \in {"idle", "done", "raised"}
    /\ \E input_string \in Inputs :
           messages' = IF messages = <<>>
                       THEN InitialMessages(input_string)
                       ELSE Append(messages, Msg("user", input_string))
    /\ pc' = "awaiting"
    /\ response' = <<>>
    /\ request' = <<>>
    /\ result' = <<>>
    /\ failure' = "none"
    /\ modelCalls' = 0
    /\ toolTurns' = 0
    /\ invocations' = <<>>
    /\ toolResult' = NoResult
    /\ nested' = <<>>
    /\ describes' = <<>>
    /\ UNCHANGED <<variant, cursors, cxVars, parserVars>>

\* a plausible slip: the input is looked at for the marker before any call
StartRunParsesInput ==
    /\ variant = "Nolangagent"
    /\ pc \in {"idle", "done", "raised"}
    /\ \E input_string \in Inputs :
           /\ messages' = InitialMessages(input_string)
           /\ IF Contains(input_string, Marker)
              THEN pc' = "done" /\ result' = RunAnswer(input_string)
              ELSE pc' = "awaiting" /\ result' = <<>>
    /\ response' = <<>>
    /\ request' = <<>>
    /\ failure' = "none"
    /\ modelCalls' = 0
    /\ toolTurns' = 0
    /\ invocations' = <<>>
    /\ toolResult' = NoResult
    /\ nested' = <<>>
    /\ describes' = <<>>
    /\ UNCHANGED <<variant, cursors, cxVars, parserVars>>

\* the caller calls agent.run(input_string): lines 121-131
StartRun ==
    /\ variant = "Nolangagent"
    /\ pc \in {"idle", "done", "raised"}
    /\ \E input_string \in Inputs :
           messages' = InitialMessages(input_string)
    /\ pc' = "awaiting"
    /\ response' = <<>>
    /\ request' = <<>>
    /\ result' = <<>>
    /\ failure' = "none"
    /\ modelCalls' = 0
    /\ toolTurns' = 0
    /\ invocations' = <<>>
    /\ toolResult' = NoResult
    /\ nested' = <<>>
    /\ describes' = <<>>
    /\ UNCHANGED <<variant, cursors, cxVars, parserVars>>

\* a plausible slip: a failed completion call is swallowed and tried again
CallModelRetries ==
    /\ pc = "awaiting"
    /\ modelCalls < MaxCalls
    /\ request' = json_dumps(messages)
    /\ modelCalls' = modelCalls + 1
    /\ \E reply \in Responses, stage \in {"ok", "cursor", "execute"} :
           LET c == cortex_complete(reply, stage)
           IN  /\ cursors' = c.cursors
               /\ IF c.raised
                  THEN UNCHANGED <<pc, failure, response>>
                  ELSE /\ pc' = "respond"
                       /\ response' = c.value
                       /\ UNCHANGED failure
    /\ UNCHANGED <<variant, messages, result, toolTurns, invocations, toolResult,
                   nested, describes, cxVars, parserVars>>

\* line 134: response = self.cortex_function(json.dumps(messages))
CallModel ==
    /\ pc = "awaiting"
    /\ modelCalls < MaxCalls
    /\ request' = json_dumps(messages)
    /\ modelCalls' = modelCalls + 1
    /\ \E reply \in Responses, stage \in {"ok", "cursor", "execute"} :
           LET c == cortex_complete(reply, stage)
           IN  /\ cursors' = c.cursors
               /\ IF c.raised
                  THEN /\ pc' = "raised"
                       /\ failure' = "completion"
                       /\ UNCHANGED response
                  ELSE /\ pc' = "respond"
                       /\ response' = c.value
                       /\ UNCHANGED failure
    /\ UNCHANGED <<variant, messages, result, toolTurns, invocations, toolResult,
                   nested, describes, cxVars, parserVars>>

\* a plausible slip: the final response is appended before returning
ReturnFinalAppends ==
    /\ pc = "respond"
    /\ RunIsFinal(response)
    /\ result' = RunAnswer(response)
    /\ messages' = Append(messages, Msg("assistant", response))
    /\ pc' = "done"
    /\ UNCHANGED <<variant, response, request, failure, modelCalls,
                   toolTurns, invocations, toolResult, nested, cursors, describes, cxVars,
                   parserVars>>

\* lines 136-137: return response.split("Final Answer:")[-1].strip()
ReturnFinal ==
    /\ pc = "respond"
    /\ RunIsFinal(response)
    /\ result' = RunAnswer(response)
    /\ pc' = "done"
    /\ UNCHANGED <<variant, messages, response, request, failure, modelCalls,
                   toolTurns, invocations, toolResult, nested, cursors, describes, cxVars,
                   parserVars>>

\* a plausible slip: an unknown tool ends the run with the error text
ToolNotFoundStops ==
    /\ pc = "respond"
    /\ ~RunIsFinal(response)
    /\ Lookup(ToolName(response)) = None
    /\ result' = NotFoundText(ToolName(response))
    /\ toolTurns' = toolTurns + 1
    /\ pc' = "done"
    /\ UNCHANGED <<variant, messages, response, request, failure, modelCalls,
                   invocations, toolResult, nested, cursors, describes, cxVars, parserVars>>

\* lines 139-142 and 146-147: no tool has the parsed name
ToolNotFound ==
    /\ pc = "respond"
    /\ ~RunIsFinal(response)
    /\ Lookup(ToolName(response)) = None
    /\ messages' = Append(messages, Msg("user", NotFoundText(ToolName(response))))
    /\ toolTurns' = toolTurns + 1
    /\ pc' = "awaiting"
    /\ UNCHANGED <<variant, response, request, result, failure, modelCalls,
                   invocations, toolResult, nested, cursors, describes, cxVars, parserVars>>

\* a plausible slip: the tool result replaces the last message
DispatchedOverwrites(tool, r) ==
    /\ invocations' = Append(invocations, [name |-> tool, argument |-> ToolInput(response)])
    /\ toolTurns' = toolTurns + 1
    /\ cursors' = r.cursors
    /\ describes' = r.describes
    /\ toolResult' = r.value
    /\ IF r.raised
       THEN /\ pc' = "raised"
            /\ failure' = tool
            /\ UNCHANGED messages
       ELSE /\ pc' = "awaiting"
            /\ messages' = [messages EXCEPT ![Len(messages)] =
                   Msg("user", ToolReturnedText(ToolName(response), PyStr(r.value)))]
            /\ UNCHANGED failure
    /\ UNCHANGED <<variant, response, request, result, modelCalls, cxVars, parserVars>>

\* lines 144-145 after tool.run has returned or raised with outcome r
Dispatched(tool, r) ==
    /\ invocations' = Append(invocations, [name |-> tool, argument |-> ToolInput(response)])
    /\ toolTurns' = toolTurns + 1
    /\ cursors' = r.cursors
    /\ describes' = r.describes
    /\ toolResult' = r.value
    /\ IF r.raised
       THEN /\ pc' = "raised"
            /\ failure' = tool
            /\ UNCHANGED messages
       ELSE /\ pc' = "awaiting"
            /\ messages' = Append(messages,
                   Msg("user", ToolReturnedText(ToolName(response), PyStr(r.value))))
            /\ UNCHANGED failure
    /\ UNCHANGED <<variant, response, request, result, modelCalls, cxVars, parserVars>>

\* lines 139-145, the tool found is snowflake_table_info
RunTableInfo ==
    /\ pc = "respond"
    /\ ~RunIsFinal(response)
    /\ Lookup(ToolName(response)) = "snowflake_table_info"
    /\ LET n == Len(Split(ToolInput(response), Comma))
       IN  \E schemas \in [1..n -> Schemas], failAt \in 0..n, stage \in {"cursor", "execute"} :
               Dispatched("snowflake_table_info",
                          _snowflake_table_info(ToolInput(response), schemas, failAt, stage))
    /\ UNCHANGED nested

\* lines 139-145, the tool found is query_checker
RunQueryChecker ==
    /\ pc = "respond"
    /\ ~RunIsFinal(response)
    /\ Lookup(ToolName(response)) = "query_checker"
    /\ nested' = json_dumps(CheckerMessages(ToolInput(response)))
    /\ \E reply \in CheckerReplies, stage \in {"ok", "cursor", "execute"} :
           Dispatched("query_checker", _query_checker(ToolInput(response), reply, stage))

\* lines 139-145, the tool found is query_executor
RunQueryExecutor ==
    /\ pc = "respond"
    /\ ~RunIsFinal(response)
    /\ Lookup(ToolName(response)) = "query_executor"
    /\ \E stage \in ExecStages \cup {"ok"}, e \in Errors, rows \in Rows, sfqid \in QueryIds :
           Dispatched("query_executor",
                      _query_executor(ToolInput(response), stage, e, rows, sfqid))
    /\ UNCHANGED nested

----------------------------------------------------------------------------
(* CortexAgent of Agent.py *)

\* what CortexAgent.run is given on a turn: the user's text on the first,
\* and on a later turn of the same conversation also a tool's observation
CortexInputs(turn) ==
    IF turn = 1 THEN Inputs ELSE Inputs \cup {<<"Observation", ":", " ", "[(5 rows)]">>}

\* CortexAgent.run(input_string): create_prompt, db.run, parse_response
CortexRun ==
    /\ variant = "Agent"
    /\ Len(cxTurns) < MaxCalls
    /\ \E input_string \in CortexInputs(Len(cxTurns) + 1) :
           /\ cxRequest' = create_prompt(input_string)
           /\ cxTurns' = Append(cxTurns, Msg("user", input_string))
    /\ \E reply \in Responses, raised \in BOOLEAN :
           cxStep' = IF raised THEN [kind |-> "raised"] ELSE parse_response(reply)
    /\ UNCHANGED <<variant, runVars, parserVars>>

\* toolkit.py: the executor calls QuerySQLDataBaseTool._run(query)
ToolkitRunQuery ==
    /\ variant = "Agent"
    /\ \E query \in {<<"q">>}, stage \in ExecStages \cup {"ok"}, e \in Errors,
          rows \in Rows, sfqid \in QueryIds :
           LET r == QuerySQLDataBaseTool_run(query, stage, e, rows, sfqid)
           IN  /\ toolResult' = (IF r.raised THEN [type |-> "raise", tool |-> "sql_db_query"]
                                 ELSE r.value)
               /\ cursors' = r.cursors
    /\ nested' = <<>>
    /\ describes' = <<>>
    /\ UNCHANGED <<variant, pc, messages, response, request, result, failure,
                   modelCalls, toolTurns, invocations, cxVars, parserVars>>

\* the arguments the executor passes to the toolkit's tools
ToolkitQueries == {<<"q">>, <<"q", "'">>}
ToolkitTableLists == {<<"t1">>, <<"t1", ",", "t2">>, <<"t1", ",", " ", "t2">>}

\* toolkit.py: the executor calls QuerySQLCheckerTool._run(query)
ToolkitCheckQuery ==
    /\ variant = "Agent"
    /\ \E query \in ToolkitQueries, reply \in CheckerReplies, raised \in BOOLEAN :
           LET r == QuerySQLCheckerTool_run(query, reply, raised)
           IN  /\ toolResult' = r.value
               /\ nested' = json_dumps(r.messages)
    /\ describes' = <<>>
    /\ cursors' = NoCursors
    /\ UNCHANGED <<variant, pc, messages, response, request, result, failure,
                   modelCalls, toolTurns, invocations, cxVars, parserVars>>

\* toolkit.py: the executor calls InfoSnowflakeTableTool._run(table_names)
ToolkitTableInfo ==
    /\ variant = "Agent"
    /\ \E table_names \in ToolkitTableLists :
           LET n == Len(Split(table_names, Comma))
           IN  \E schemas \in [1..n -> Schemas], failAt \in 0..n :
                   LET r == InfoSnowflakeTableTool_run(table_names, schemas, failAt)
                   IN  /\ toolResult' = r.value
                       /\ describes' = r.describes
    /\ nested' = <<>>
    /\ cursors' = NoCursors
    /\ UNCHANGED <<variant, pc, messages, response, request, result, failure,
                   modelCalls, toolTurns, invocations, cxVars, parserVars>>

\* a step of the one agent: no other session, no run kept on record
Alone == UNCHANGED <<sessVars, histVars>>

DoStartRun == StartRun /\ Alone
DoCallModel == CallModel /\ Alone
DoReturnFinal == ReturnFinal /\ Alone
DoToolNotFound == ToolNotFound /\ Alone
DoRunTableInfo == RunTableInfo /\ Alone
DoRunQueryChecker == RunQueryChecker /\ Alone
DoRunQueryExecutor == RunQueryExecutor /\ Alone
DoCortexRun == CortexRun /\ Alone
DoToolkitRunQuery == ToolkitRunQuery /\ Alone
DoToolkitCheckQuery == ToolkitCheckQuery /\ Alone
DoToolkitTableInfo == ToolkitTableInfo /\ Alone

Next ==
    \/ DoStartRun
    \/ DoCallModel
    \/ DoReturnFinal
    \/ DoToolNotFound
    \/ DoRunTableInfo
    \/ DoRunQueryChecker
    \/ DoRunQueryExecutor
    \/ DoCortexRun
    \/ DoToolkitRunQuery
    \/ DoToolkitCheckQuery
    \/ DoToolkitTableInfo

Spec == Init /\ [][Next]_vars

----------------------------------------------------------------------------
(* The parser and the classification of Agent.run, on every short text *)

Alphabet == {FA, ":", " ", "x"}

Texts == UNION {[1..n -> Alphabet] : n \in 0..MaxLen}

ParserInit ==
    /\ variant = "parser"
    /\ IdleRun
    /\ IdleCortex
    /\ text \in Texts
    /\ parsed = [kind |-> "none"]
    /\ runStep = [kind |-> "none"]
    /\ IdleSessions
    /\ IdleHistory

\* Agent.py: parse_response(text)
ParseResponse ==
    /\ parsed.kind = "none"
    /\ parsed' = parse_response(text)
    /\ UNCHANGED <<variant, runVars, cxVars, text, runStep>>

\* Nolangagent.py lines 136-140 on text
RunClassify ==
    /\ runStep.kind = "none"
    /\ runStep' = RunStep(text)
    /\ UNCHANGED <<variant, runVars, cxVars, text, parsed>>

DoParseResponse == ParseResponse /\ Alone
DoRunClassify == RunClassify /\ Alone

ParserNext == DoParseResponse \/ DoRunClassify

ParserSpec == ParserInit /\ [][ParserNext]_vars

----------------------------------------------------------------------------
(* Nolangmain.py: browser sessions that run in parallel *)

Sessions == {"s1", "s2"}

\* what the users type into the sidebar
Credentials == {"alice", "bob"}

NoSession == [conn |-> 0, agent |-> "none", running |-> FALSE, cursor |-> 0,
              transcript |-> <<>>]

\* get_snowflake_connection under @st.cache_resource: one connection per
\* distinct argument tuple, kept for every session of the server
get_snowflake_connection(cred) ==
    IF connCache[cred] # 0
    THEN connCache[cred]
    ELSE 1 + Cardinality({c \in Credentials : connCache[c] # 0})

SessionsInit ==
    /\ variant = "sessions"
    /\ IdleRun
    /\ IdleCortex
    /\ IdleParser
    /\ IdleHistory
    /\ sessions = [s \in Sessions |-> NoSession]
    /\ connCache = [c \in Credentials |-> 0]

RunFrame == UNCHANGED <<variant, runVars, cxVars, parserVars, histVars>>

\* lines 47-56: the secrets are all set; the session gets the connection
\* and a new Agent, which builds its own tool list
SidebarSetup(s) ==
    /\ ~sessions[s].running
    /\ \E cred \in Credentials :
           /\ sessions' = [sessions EXCEPT ![s].conn = get_snowflake_connection(cred),
                                           ![s].agent = s]
           /\ connCache' = [connCache EXCEPT ![cred] = get_snowflake_connection(cred)]
    /\ RunFrame

\* lines 65-76: the chat input calls the session's agent_executor(prompt);
\* Agent.run starts with its own list [system, user]
ChatInput(s) ==
    /\ ~sessions[s].running
    /\ sessions[s].conn # 0
    /\ sessions' = [sessions EXCEPT
           ![s].running = TRUE,
           ![s].transcript = <<[owner |-> s, role |-> "system"],
                               [owner |-> s, role |-> "user"]>>]
    /\ UNCHANGED connCache
    /\ RunFrame

\* a warehouse call of the run: snowflake_connection.cursor()
AcquireCursor(s) ==
    /\ sessions[s].running
    /\ sessions[s].cursor = 0
    /\ Len(sessions[s].transcript) < MaxCalls + 2
    /\ sessions' = [sessions EXCEPT ![s].cursor = sessions[s].conn]
    /\ UNCHANGED connCache
    /\ RunFrame

\* the call is over: cursor.close(), and the run appends the tool result
ReleaseCursor(s) ==
    /\ sessions[s].running
    /\ sessions[s].cursor # 0
    /\ sessions' = [sessions EXCEPT
           ![s].cursor = 0,
           ![s].transcript = Append(sessions[s].transcript,
                                    [owner |-> s, role |-> "user"])]
    /\ UNCHANGED connCache
    /\ RunFrame

\* Agent.run returns to the chat handler: lines 76-79
RunEnds(s) ==
    /\ sessions[s].running
    /\ sessions[s].cursor = 0
    /\ sessions' = [sessions EXCEPT ![s].running = FALSE]
    /\ UNCHANGED connCache
    /\ RunFrame

SessionsNext ==
    \E s \in Sessions :
        \/ SidebarSetup(s)
        \/ ChatInput(s)
        \/ AcquireCursor(s)
        \/ ReleaseCursor(s)
        \/ RunEnds(s)

SessionsSpec == SessionsInit /\ [][SessionsNext]_vars

----------------------------------------------------------------------------
(* Nolangmain.py: one session sends two chat messages to the same agent *)

\* what the run has been given so far at this step: its input, the
\* endpoint's completion, the warehouse's answer, or an exception
EnvNow ==
    [input |-> IF Len(messages) < 2 THEN <<>> ELSE messages[2].content,
     response |-> response,
     toolResult |-> toolResult,
     raised |-> (pc = "raised")]

\* what the run has sent and produced at this step
OutNow ==
    [request |-> request, nested |-> nested, invocations |-> invocations,
     messages |-> messages, result |-> result, pc |-> pc]

\* the step is put on the record of the current run
Recorded == trace' = Append(trace, [env |-> EnvNow', out |-> OutNow'])

\* the second run is given what the first one was given
Replays ==
    (prevRun' # <<>> /\ Len(trace') <= Len(prevRun'))
        => trace'[Len(trace')].env = prevRun'[Len(trace')].env

RerunInit ==
    /\ variant = "Nolangagent"
    /\ IdleRun
    /\ IdleCortex
    /\ IdleParser
    /\ IdleSessions
    /\ IdleHistory

\* lines 65-76: the next chat message calls agent_executor(prompt) again
RerunStartRun ==
    /\ StartRun
    /\ pc = "idle" \/ prevRun = <<>>
    /\ prevRun' = trace
    /\ trace' = <<[env |-> EnvNow', out |-> OutNow']>>
    /\ Replays
    /\ UNCHANGED sessVars

\* a step inside a run: the earlier run's record stays as it is
SameRecord == UNCHANGED <<prevRun, sessVars>>

RerunCallModel == CallModel /\ Recorded /\ SameRecord /\ Replays
RerunReturnFinal == ReturnFinal /\ Recorded /\ SameRecord /\ Replays
RerunToolNotFound == ToolNotFound /\ Recorded /\ SameRecord /\ Replays
RerunTableInfo == RunTableInfo /\ Recorded /\ SameRecord /\ Replays
RerunQueryChecker == RunQueryChecker /\ Recorded /\ SameRecord /\ Replays
RerunQueryExecutor == RunQueryExecutor /\ Recorded /\ SameRecord /\ Replays

RerunNext ==
    \/ RerunStartRun
    \/ RerunCallModel
    \/ RerunReturnFinal
    \/ RerunToolNotFound
    \/ RerunTableInfo
    \/ RerunQueryChecker
    \/ RerunQueryExecutor

RerunSpec == RerunInit /\ [][RerunNext]_vars

----------------------------------------------------------------------------
(* Properties *)

TurnBudget == 2

IsPrefix(s, t) == Len(s) <= Len(t) /\ SubSeq(t, 1, Len(s)) = s

\* the text after the last occurrence of the marker, trimmed
AfterLastMarker(t) ==
    LET i == CHOOSE k \in 1..Len(t) :
                 /\ MatchAt(t, Marker, k)
                 /\ \A j \in (k + 1)..Len(t) : ~MatchAt(t, Marker, j)
    IN  Strip(SubSeq(t, i + Len(Marker), Len(t)))

\* the names of the registry, as parsed texts
RegisteredNames == {<<"snowflake_table_info">>, <<"query_checker">>, <<"query_executor">>}

\* C1, the part about CortexAgent.parse_response: a text that contains the
\* marker parses to Final with the trimmed text after the last marker.
C1_ParseResponseFinal ==
    (Contains(text, Marker) /\ parsed.kind # "none")
        => parsed = Final(AfterLastMarker(text))

C1_ParseResponseFinalWitness ==
    /\ text = <<"x", ":", FA, ":", "x">>
    /\ parsed = Final(<<"x">>)

\* C1: every completion text that contains the marker "Final Answer:" anywhere
\* is classified Final, with the trimmed text after the last marker as the
\* answer, by CortexAgent.parse_response and by Agent.run alike.
C1_FinalWhereverMarker ==
    Contains(text, Marker) =>
        /\ parsed.kind # "none" => parsed = Final(AfterLastMarker(text))
        /\ runStep.kind # "none" => runStep = Final(AfterLastMarker(text))

\* C2: a run whose responses are never Final stops after a bound on the
\* number of model turns: once TurnBudget model calls are made, the loop is
\* never again waiting to call the model.
C2_MaxTurnCeiling ==
    modelCalls >= TurnBudget => pc # "awaiting"

\* C3: a response whose parsed tool name is not registered makes the loop
\* append exactly the one message "Error: Tool {name} not found.", invoke no
\* tool, raise nothing, and go back to calling the model.
C3_UnknownToolFeedsBack ==
    [][(/\ pc = "respond"
        /\ ~RunIsFinal(response)
        /\ ToolName(response) \notin RegisteredNames)
       => /\ pc' = "awaiting"
          /\ failure' = "none"
          /\ invocations' = invocations
          /\ messages' = Append(messages,
                 Msg("user", <<"Error", ":", " Tool ">> \o ToolName(response)
                             \o <<" not found.">>))]_vars

\* the empty name was reported and the model was called again
C3_Witness ==
    /\ pc = "respond"
    /\ modelCalls = 2
    /\ Len(messages) = 3
    /\ messages[3] = Msg("user", <<"Error", ":", " Tool ", " not found.">>)
    /\ invocations = <<>>

\* C4: query_executor never raises; a failure of cursor creation, execute,
\* fetchall or close yields {"error": message}, success yields the rows and
\* the query id; the loop appends the rendered value and goes on, and the
\* next request carries it.
C4_ExecutorErrorsAreData ==
    /\ [][(/\ pc = "respond"
           /\ ~RunIsFinal(response)
           /\ ToolName(response) = <<"query_executor">>)
          => /\ pc' = "awaiting"
             /\ failure' = "none"
             /\ \/ /\ cursors'.closed = 0
                   /\ \E e \in Errors : toolResult' = [type |-> "dict", error |-> e]
                \/ /\ cursors' = [opened |-> 1, closed |-> 1]
                   /\ \E rows \in Rows, q \in QueryIds :
                          toolResult' = [type |-> "dict", results |-> rows, query_id |-> q]
             /\ messages' = Append(messages,
                    Msg("user", <<"Tool ", "query_executor", " returned", ":", " ">>
                                \o PyStr(toolResult')))]_vars
    /\ [](failure # "query_executor")
    /\ []((pc = "respond" /\ Len(messages) > 2)
            => request[Len(request)] = JsonObject(messages[Len(messages)]))
    /\ [](variant = "Agent" => toolResult # [type |-> "raise", tool |-> "sql_db_query"])

\* the error of a failed query is in the request of the next model call
C4_Witness ==
    /\ pc = "respond"
    /\ modelCalls = 2
    /\ toolResult = [type |-> "dict", error |-> "SQL compilation error"]
    /\ request[3] = JsonObject(Msg("user",
           <<"Tool ", "query_executor", " returned", ":", " ",
             "{'error'", ":", " '", "SQL compilation error", "'}">>))

\* C5: no failure of a tool is raised out of Agent.run: whatever a run
\* raises comes from the loop's own completion call.
C5_NoToolFailureRaised ==
    pc = "raised" => failure = "completion"

\* a run that has not ended goes on; a step from "done" or "raised" is the
\* caller's next call of run
SameRun == pc \in {"awaiting", "respond"}

\* C6: Agent.run returns only on a response it classified Final; it then
\* appends nothing, returns the extracted answer and calls neither the model
\* nor a tool again, so that k tool-call responses followed by a Final one
\* make k + 1 model calls.
C6_ReturnsOnlyOnFinal ==
    /\ [][(pc # "done" /\ pc' = "done")
          => /\ pc = "respond"
             /\ StartsWith(Strip(response), Marker)
             /\ messages' = messages
             /\ invocations' = invocations
             /\ modelCalls' = modelCalls
             /\ result' = AfterLastMarker(response)]_vars
    /\ [][(pc = "done" /\ pc' # "awaiting") => UNCHANGED runVars]_vars
    /\ [](pc = "done" => /\ modelCalls = toolTurns + 1
                         /\ Len(messages) = toolTurns + 2)

\* one tool call, then a final answer: two model calls
C6_Witness ==
    /\ pc = "done"
    /\ modelCalls = 2
    /\ toolTurns = 1
    /\ Len(invocations) = 1
    /\ result = <<"x">>

\* the position of the first colon of a text that has one
FirstColon(t) ==
    CHOOSE k \in 1..Len(t) : t[k] = ":" /\ \A j \in 1..(k - 1) : t[j] # ":"

\* the ToolCall the text protocol prescribes for a text without the marker
ExpectedToolCall(t) ==
    IF \E k \in 1..Len(t) : t[k] = ":"
    THEN ToolCall(Strip(SubSeq(t, 1, FirstColon(t) - 1)),
                  Strip(SubSeq(t, FirstColon(t) + 1, Len(t))))
    ELSE ToolCall(Strip(t), <<>>)

\* C7: a text without the marker parses to the tool name before its first
\* colon, trimmed, and the argument after that colon, trimmed, later colons
\* kept in place; without any colon the name is the whole trimmed text and
\* the argument is empty.  By parse_response and by Agent.run alike.
C7_SplitAtFirstColon ==
    ~Contains(text, Marker) =>
        /\ parsed.kind # "none" => parsed = ExpectedToolCall(text)
        /\ runStep.kind # "none" => runStep = ExpectedToolCall(text)

\* an argument with two later colons, both kept
C7_Witness ==
    /\ text = <<" ", "x", ":", ":", "x">>
    /\ parsed = ToolCall(<<"x">>, <<":", "x">>)
    /\ runStep = parsed

\* C8: during a run the transcript starts with the system instructions and
\* the user's input, and every step of the run keeps the transcript it found
\* as a prefix of the one it leaves.
C8_TranscriptAppendOnly ==
    /\ [](pc # "idle" => /\ Len(messages) >= 2
                         /\ messages[1] = Msg("system", SystemMessage)
                         /\ messages[2].role = "user"
                         /\ messages[2].content \in Inputs)
    /\ [][(~SameRun /\ pc' = "awaiting")
          => \E input_string \in Inputs :
                 messages' = <<Msg("system", SystemMessage), Msg("user", input_string)>>]_vars
    /\ [][SameRun => IsPrefix(messages, messages')]_vars

\* two tool results were appended behind the system message and the input
C8_Witness ==
    /\ pc = "respond"
    /\ Len(messages) = 4
    /\ messages[3].content # messages[4].content

\* C9, the part about Agent.run: every request of the loop is the whole
\* transcript, encoded, system message first.
C9_RunRequestIsTranscript ==
    pc = "respond" =>
        /\ Len(request) = Len(messages)
        /\ \A i \in 1..Len(messages) : request[i] = JsonObject(messages[i])
        /\ request[1] = JsonObject(Msg("system", SystemMessage))

C9_RunRequestWitness ==
    /\ pc = "respond"
    /\ Len(request) = 4

\* C9: on every model turn the request is the system message, then every
\* earlier message of the conversation in order, then the latest one; for
\* Agent.run and for CortexAgent.create_prompt.
C9_RequestIsWholeTranscript ==
    /\ C9_RunRequestIsTranscript
    /\ cxRequest # <<>> =>
           cxRequest = json_dumps(<<Msg("system", SystemMessage)>> \o cxTurns)

\* C10: when the loop's completion call fails, the run ends with that failure
\* on the same turn, and it calls neither the model nor a tool afterwards.
C10_CompletionFailureSurfaces ==
    /\ [][(pc = "awaiting" /\ pc' # "awaiting" /\ cursors'.closed = 0)
          => /\ pc' = "raised"
             /\ failure' = "completion"
             /\ invocations' = invocations
             /\ messages' = messages]_vars
    /\ [][(pc = "awaiting" /\ pc' = "awaiting") => UNCHANGED runVars]_vars
    /\ [][(pc = "raised" /\ pc' # "awaiting") => UNCHANGED runVars]_vars

\* the endpoint failed on the second turn, after one tool result
C10_Witness ==
    /\ pc = "raised"
    /\ failure = "completion"
    /\ modelCalls = 2
    /\ Len(invocations) = 1

\* C11: whenever a call that uses the warehouse has returned or raised
\* (_query_executor, _snowflake_table_info, QuerySQLDataBaseTool._run,
\* cortex_complete), it has closed every cursor it opened.
C11_EveryCursorClosed ==
    cursors.opened = cursors.closed

\* a message the loop appended for a tool that returned
IsToolResult(m) == m.content # <<>> /\ Head(m.content) = "Tool "

\* the tool-result messages of the transcript, in order
ToolResults == SelectSeq(messages, IsToolResult)

\* what the text protocol makes of a registered response: its tool and argument
ExpectedInvocation(r) ==
    [name |-> ToolName(r)[1], argument |-> ExpectedToolCall(r).argument]

\* the steps of a run are sequential: one model call per turn, at most one
\* tool per response, the last invocation the one the last response asked for
Sequential ==
    /\ Len(invocations) <= toolTurns
    /\ toolTurns <= modelCalls
    /\ modelCalls <= toolTurns + 1
    /\ (pc = "awaiting" /\ toolTurns > 0 /\ ToolName(response) \in RegisteredNames)
           => invocations[Len(invocations)] = ExpectedInvocation(response)

\* C12, the part the code keeps: the run is sequential, and every tool that
\* returned has its one message "Tool {name} returned: ..." in turn order.
C12_ReturnedToolsAreRecorded ==
    /\ Sequential
    /\ Len(ToolResults) <= Len(invocations)
    /\ \A k \in 1..Len(ToolResults) :
           IsPrefix(<<"Tool ", invocations[k].name, " returned", ":", " ">>,
                    ToolResults[k].content)
    /\ pc # "raised" => Len(ToolResults) = Len(invocations)

C12_ReturnedToolsWitness ==
    /\ pc = "awaiting"
    /\ Len(invocations) = 2
    /\ Len(ToolResults) = 2
    /\ invocations[1].name # invocations[2].name

\* C12: every response that names a registered tool makes the loop invoke
\* that tool once with the parsed argument and append exactly one message
\* "Tool {name} returned: {rendered-result}" before the next model call; the
\* steps of a run are sequential.
C12_RegisteredToolRunsOnce ==
    /\ Sequential
    /\ Len(ToolResults) = Len(invocations)
    /\ \A k \in 1..Len(invocations) :
           IsPrefix(<<"Tool ", invocations[k].name, " returned", ":", " ">>,
                    ToolResults[k].content)

\* C13, the part about transcripts: a run's transcript holds only messages
\* that this run appended, and each session's agent is its own.
C13_TranscriptsAreOwn ==
    \A s \in Sessions :
        /\ \A i \in 1..Len(sessions[s].transcript) : sessions[s].transcript[i].owner = s
        /\ sessions[s].agent \in {"none", s}

C13_TranscriptsWitness ==
    /\ Len(sessions["s1"].transcript) = 3
    /\ Len(sessions["s2"].transcript) = 3
    /\ sessions["s1"].running
    /\ sessions["s2"].running

\* C13: sessions that run in parallel share no mutable state: each run
\* appends only to its own transcript, and two sessions never have cursors
\* open at the same time on the same underlying connection.
C13_SessionsShareNothing ==
    /\ C13_TranscriptsAreOwn
    /\ \A s, t \in Sessions :
           (s # t /\ sessions[s].cursor # 0 /\ sessions[t].cursor # 0)
               => sessions[s].cursor # sessions[t].cursor

\* the role of an encoded message
RoleOf(obj) == obj[4]

\* the step on which the loop runs the query checker
CheckerTurn ==
    /\ pc = "respond"
    /\ ~RunIsFinal(response)
    /\ ToolName(response) = <<"query_checker">>
    /\ toolTurns' = toolTurns + 1

\* C14: the query checker's nested request is exactly one message with role
\* user, not the system message and no message of the transcript, and the
\* only transcript change of a checker turn is the one tool-result message
\* appended after the call (none when the call raises).
C14_CheckerCallIsolated ==
    [][/\ nested' # <<>> =>
              /\ Len(nested') = 1
              /\ RoleOf(nested'[1]) = "user"
              /\ \A i \in 1..Len(messages) : nested'[1] # JsonObject(messages[i])
       /\ (nested' # nested /\ nested' # <<>>) => cxTurns' = cxTurns
       /\ CheckerTurn =>
              /\ nested' # <<>>
              /\ \/ pc' = "raised" /\ messages' = messages
                 \/ /\ pc' = "awaiting"
                    /\ Len(messages') = Len(messages) + 1
                    /\ SubSeq(messages', 1, Len(messages)) = messages
                    /\ Last(messages').role = "user"
                    /\ IsPrefix(<<"Tool ", "query_checker", " returned", ":", " ">>,
                                Last(messages').content)]_vars

C14_Witness ==
    /\ pc = "awaiting"
    /\ Len(messages) = 4
    /\ Len(invocations) = 2
    /\ invocations[2].name = "query_checker"
    /\ Len(nested) = 1

\* the loop's last tool invocation was schema-info
SchemaInfoCalled ==
    /\ variant = "Nolangagent"
    /\ invocations # <<>>
    /\ Last(invocations).name = "snowflake_table_info"

ListedTables == Split(Last(invocations).argument, Comma)

BlockCount(out) == Cardinality({i \in 1..Len(out) : out[i] = "Schema for table "})

\* one block "Schema for table {name}: {raw-result}\n" per table, in order
IsSchemaOutput(v, tables) ==
    /\ v.type = "str"
    /\ BlockCount(v.value) = Len(tables)
    /\ \E raw \in [1..Len(tables) -> Schemas] :
           v.value = SchemaBlocks(tables, raw, Len(tables))

\* C15, the part for calls that return: a schema-info call that returns has
\* issued one DESCRIBE TABLE per comma-separated entry, in input order, and
\* returns one block per entry in the same order.
C15_ReturnedSchemaIsComplete ==
    /\ (SchemaInfoCalled /\ toolResult.type = "str") =>
           /\ describes = ListedTables
           /\ IsSchemaOutput(toolResult, ListedTables)
    /\ (variant = "Agent" /\ describes # <<>> /\ toolResult.type = "str") =>
           IsSchemaOutput(toolResult, describes)

C15_ReturnedSchemaWitness ==
    /\ SchemaInfoCalled
    /\ toolResult.type = "str"
    /\ Len(ListedTables) = 2
    /\ pc = "awaiting"

\* C15: for every comma-separated table list, schema-info issues exactly one
\* DESCRIBE TABLE per listed name in input order and returns one block per
\* listed name in that order.
C15_OneDescribePerTable ==
    SchemaInfoCalled =>
        /\ describes = ListedTables
        /\ IsSchemaOutput(toolResult, ListedTables)

\* the step that handles a response the run classifies as a tool call
ToolCallTurn ==
    /\ pc = "respond"
    /\ ~RunIsFinal(response)
    /\ toolTurns' = toolTurns + 1

\* C16: the registry's names are unique and lookup is by exact,
\* case-sensitive match of the trimmed parsed name: a name resolves to at
\* most one tool, that tool has exactly this name, and any other name gets
\* the not-found message and no tool runs.
C16_LookupIsExact ==
    [][ToolCallTurn =>
           LET name == ToolName(response)
           IN  /\ Cardinality(ToolNames) = Len(Tools)
               /\ Cardinality({i \in 1..Len(Tools) : <<Tools[i]>> = name}) <= 1
               /\ name \in RegisteredNames =>
                      /\ Len(invocations') = Len(invocations) + 1
                      /\ <<Last(invocations').name>> = name
               /\ name \notin RegisteredNames =>
                      /\ invocations' = invocations
                      /\ pc' = "awaiting"
                      /\ messages' = Append(messages,
                             Msg("user", <<"Error", ":", " Tool ">> \o name \o <<" not found.">>))]_vars

C16_Witness ==
    /\ pc = "awaiting"
    /\ response = <<"Query_Executor", ":", "q">>
    /\ invocations = <<>>
    /\ Last(messages).content = <<"Error", ":", " Tool ", "Query_Executor", " not found.">>

\* "Tool {name} returned: ..." or "Error: Tool {name} not found.", role user
IsTurnMessage(m) ==
    /\ m.role = "user"
    /\ \/ /\ IsPrefix(<<"Tool ">>, m.content)
          /\ Contains(m.content, <<" returned", ":", " ">>)
       \/ /\ IsPrefix(<<"Error", ":", " Tool ">>, m.content)
          /\ Last(m.content) = " not found."

\* the transcript after n tool-call responses
TranscriptAfter(n) ==
    /\ Len(messages) = n + 2
    /\ messages[1] = [role |-> "system", content |-> <<"SYSTEM_INSTRUCTIONS">>]
    /\ messages[2].role = "user"
    /\ messages[2].content \in Inputs
    /\ \A i \in 3..Len(messages) : IsTurnMessage(messages[i])
    /\ \A i \in 1..Len(messages) : messages[i].role # "assistant"

\* C17, the part for runs in which no tool raised: at the head of the loop,
\* after a response, and on return, the transcript is [system, input] and
\* one turn message per response classified as a tool call.
C17_TranscriptAtLoopHead ==
    (variant = "Nolangagent" /\ pc \in {"awaiting", "respond", "done"})
        => TranscriptAfter(toolTurns)

C17_TranscriptAtLoopHeadWitness ==
    /\ pc = "done"
    /\ toolTurns = 2
    /\ Len(messages) = 4
    /\ IsPrefix(<<"Tool ">>, messages[3].content)
    /\ IsPrefix(<<"Error">>, messages[4].content)

\* C17: after n responses classified as tool calls in one run the transcript
\* has exactly n+2 messages: system, input, and one message per tool-call
\* response, each with role user and a tool-result or not-found content;
\* the model's responses are never appended.
C17_TranscriptCountsToolTurns ==
    (variant = "Nolangagent" /\ pc # "idle") => TranscriptAfter(toolTurns)

\* C18: only the endpoint's output is parsed as a protocol step: a run
\* returns only after at least one model call, on a response of the endpoint;
\* a tool is invoked only on a response of the endpoint; from the head of
\* the loop the only step is a model call, whatever the input and the tool
\* results say.
C18_OnlyEndpointOutputIsParsed ==
    [][/\ (pc' = "done" /\ pc # "done") =>
              /\ modelCalls >= 1
              /\ pc = "respond"
              /\ response \in Responses
              /\ RunIsFinal(response)
       /\ (invocations' # invocations /\ invocations' # <<>>) =>
              /\ modelCalls >= 1
              /\ pc = "respond"
              /\ response \in Responses
              /\ <<Last(invocations').name>> = ToolName(response)
       /\ (pc = "awaiting" /\ pc' # pc) =>
              /\ modelCalls' = modelCalls + 1
              /\ invocations' = invocations
              /\ pc' \in {"respond", "raised"}
       /\ (response' # response /\ response' # <<>>) =>
              /\ modelCalls' = modelCalls + 1
              /\ response' \in Responses]_vars

\* the input and a tool result both carry the marker, and the loop goes on
C18_Witness ==
    /\ pc = "respond"
    /\ modelCalls = 2
    /\ Len(messages) = 3
    /\ Contains(messages[2].content, Marker)
    /\ Contains(messages[3].content, Marker)
    /\ IsPrefix(<<"Tool ">>, messages[3].content)

MinLen(a, b) == IF Len(a) <= Len(b) THEN Len(a) ELSE Len(b)

\* C19: a run carries no state to the next: every run starts from the
\* transcript [system, input], with the same system message and no message
\* of the earlier run, and a second run that is given the same input and the
\* same endpoint and warehouse responses as the first sends the same
\* requests, invokes the same tools and returns the same result.
C19_RunsAreIndependent ==
    /\ trace # <<>> =>
           /\ Len(trace[1].out.messages) = 2
           /\ trace[1].out.messages[1] = [role |-> "system", content |-> <<"SYSTEM_INSTRUCTIONS">>]
           /\ trace[1].out.messages[2].role = "user"
           /\ trace[1].out.messages[2].content \in Inputs
    /\ \A k \in 1..MinLen(trace, prevRun) :
           (\A j \in 1..k : trace[j].env = prevRun[j].env)
               => trace[k].out = prevRun[k].out

\* the second run has come to its end after a tool turn, as the first did
C19_Witness ==
    /\ prevRun # <<>>
    /\ Len(trace) = Len(prevRun)
    /\ Len(trace) >= 5
    /\ pc = "done"
    /\ toolTurns >= 1

====
